---- MODULE Spec2Model ----
(***************************************************************************)
(* Home office tracker (src/main.rs): the date store, the date range       *)
(* engine (parse_dates_or_default, get_export) and the terminal interface  *)
(* (AppState, run_tui), together with main's raw-mode handling.            *)
(*                                                                         *)
(* Text is a sequence of one-character strings.  Option<T> is a sequence   *)
(* of length at most one: None == << >>, Some(v) == << v >>.               *)
(***************************************************************************)
EXTENDS Integers, Sequences, FiniteSets

(***************************************************************************)
(* Bounds.  The calendar is cut down to CalDays consecutive days starting  *)
(* at the epoch 2024-12-31; its last day stands for NaiveDate::MAX.        *)
(* Local::now() falls on day Today of it.                                  *)
(***************************************************************************)
CalDays == 4

Today == 1

None == << >>

Some(v) == << v >>

-----------------------------------------------------------------------------
(* chrono::NaiveDate: a date is its day number since the epoch.            *)

NaiveDate == 0 .. (CalDays - 1)

Epoch == [y |-> 2024, m |-> 12, d |-> 31]

IsLeapYear(y) == (y % 4 = 0 /\ y % 100 # 0) \/ y % 400 = 0

DaysInMonth(y, m) ==
    IF m = 2 THEN (IF IsLeapYear(y) THEN 29 ELSE 28)
    ELSE IF m \in {4, 6, 9, 11} THEN 30 ELSE 31

NextYMD(c) ==
    IF c.d < DaysInMonth(c.y, c.m) THEN [c EXCEPT !.d = c.d + 1]
    ELSE IF c.m < 12 THEN [c EXCEPT !.m = c.m + 1, !.d = 1]
    ELSE [y |-> c.y + 1, m |-> 1, d |-> 1]

RECURSIVE YMD(_)
YMD(n) == IF n = 0 THEN Epoch ELSE NextYMD(YMD(n - 1))

(* The (year, month, day) of every day of the calendar.                    *)
Calendar == [n \in NaiveDate |-> YMD(n)]

(* NaiveDate::succ_opt: the next day, None after the last day.             *)
succ_opt(n) == IF n < CalDays - 1 THEN Some(n + 1) ELSE None

(* A (year, month, day) that names a day of the Gregorian calendar.        *)
ValidYMD(c) ==
    /\ c.m \in 1 .. 12
    /\ c.d >= 1
    /\ c.d <= DaysInMonth(c.y, c.m)

InCalendar(c) == \E n \in NaiveDate : Calendar[n] = c

Ordinal(c) == CHOOSE n \in NaiveDate : Calendar[n] = c

-----------------------------------------------------------------------------
(* Text.                                                                   *)

Digits == <<"0", "1", "2", "3", "4", "5", "6", "7", "8", "9">>

IsDigit(ch) == ch \in {"0", "1", "2", "3", "4", "5", "6", "7", "8", "9"}

DigitVal(ch) ==
    CASE ch = "0" -> 0 [] ch = "1" -> 1 [] ch = "2" -> 2 [] ch = "3" -> 3
      [] ch = "4" -> 4 [] ch = "5" -> 5 [] ch = "6" -> 6 [] ch = "7" -> 7
      [] ch = "8" -> 8 [] OTHER -> 9

(* Byte values, for the store's text ordering.                             *)
CharCode(ch) ==
    CASE ch = " " -> 32
      [] ch = "+" -> 43
      [] ch = "-" -> 45
      [] ch = "." -> 46
      [] IsDigit(ch) -> 48 + DigitVal(ch)
      [] ch = ":" -> 58
      [] ch = "a" -> 97
      [] ch = "c" -> 99
      [] ch = "d" -> 100
      [] ch = "q" -> 113
      [] OTHER -> 120

Drop(s, k) == SubSeq(s, k + 1, Len(s))

Take(s, k) == SubSeq(s, 1, k)

RECURSIVE trim_start(_)
trim_start(s) ==
    IF s # << >> /\ Head(s) = " " THEN trim_start(Tail(s)) ELSE s

RECURSIVE trim_end(_)
trim_end(s) ==
    IF s # << >> /\ s[Len(s)] = " " THEN trim_end(Take(s, Len(s) - 1)) ELSE s

(* str::trim *)
trim(s) == trim_end(trim_start(s))

(* str::split("::"): the pieces between non-overlapping "::", left to      *)
(* right; a text without "::" (the empty text too) is one piece.           *)
RECURSIVE split(_)
split(s) ==
    LET hits == {i \in 1 .. (Len(s) - 1) : s[i] = ":" /\ s[i + 1] = ":"}
    IN  IF hits = {} THEN << s >>
        ELSE LET i == CHOOSE h \in hits : \A g \in hits : h <= g
             IN  << Take(s, i - 1) >> \o split(Drop(s, i + 1))

(* Two decimal digits, zero padded; four for the year.                     *)
Pad2(n) == << Digits[((n \div 10) % 10) + 1], Digits[(n % 10) + 1] >>

Pad4(n) == Pad2(n \div 100) \o Pad2(n % 100)

(* NaiveDate::format("%Y-%m-%d").to_string()                               *)
format(n) ==
    LET c == Calendar[n]
    IN  Pad4(c.y) \o << "-" >> \o Pad2(c.m) \o << "-" >> \o Pad2(c.d)

(* The same day written day.month.year, as "%d.%m.%Y" reads it.            *)
format_dmy(n) ==
    LET c == Calendar[n]
    IN  Pad2(c.d) \o << "." >> \o Pad2(c.m) \o << "." >> \o Pad4(c.y)

-----------------------------------------------------------------------------
(* chrono's parser.  A numeric field skips leading white space and takes   *)
(* between one and `width` digits; a literal must match exactly; text left *)
(* over after the last field is an error.                                  *)

RECURSIVE LeadingDigits(_, _)
LeadingDigits(s, width) ==
    IF width > 0 /\ s # << >> /\ IsDigit(Head(s))
    THEN 1 + LeadingDigits(Tail(s), width - 1)
    ELSE 0

RECURSIVE Decimal(_)
Decimal(s) ==
    IF s = << >> THEN 0
    ELSE 10 * Decimal(Take(s, Len(s) - 1)) + DigitVal(s[Len(s)])

(* The first k characters of s read as a number: [ok, v, rest].            *)
Number(s, k) ==
    IF k = 0 THEN [ok |-> FALSE, v |-> 0, rest |-> s]
    ELSE [ok |-> TRUE, v |-> Decimal(Take(s, k)), rest |-> Drop(s, k)]

(* scan::number(s, 1, width) *)
Scan(s, width) == Number(s, LeadingDigits(s, width))

(* An unsigned numeric field (%m, %d).                                     *)
Numeric(s, width) == Scan(trim_start(s), width)

Signed(sign, r) == IF sign = "-" THEN [r EXCEPT !.v = 0 - r.v] ELSE r

(* The year field (%Y) is signed: after a sign any number of digits is     *)
(* read, without a sign at most four.                                      *)
ScanYear(t) ==
    IF t # << >> /\ Head(t) \in {"+", "-"}
    THEN Signed(Head(t), Scan(Tail(t), Len(t)))
    ELSE Scan(t, 4)

NumericYear(s) == ScanYear(trim_start(s))

(* The parser's state: the fields read so far and the text left.           *)
Start(s) == [ok |-> TRUE, rest |-> s, y |-> 0, m |-> 0, d |-> 0]

Failed(st) == [st EXCEPT !.ok = FALSE]

Field(st, f, r) ==
    IF st.ok /\ r.ok THEN [st EXCEPT ![f] = r.v, !.rest = r.rest]
    ELSE Failed(st)

Year(st) == Field(st, "y", NumericYear(st.rest))

Month(st) == Field(st, "m", Numeric(st.rest, 2))

Day(st) == Field(st, "d", Numeric(st.rest, 2))

Literal(st, ch) ==
    IF st.ok /\ st.rest # << >> /\ Head(st.rest) = ch
    THEN [st EXCEPT !.rest = Tail(st.rest)]
    ELSE Failed(st)

(* Err is None; Ok is Some of a (year, month, day) of the Gregorian        *)
(* calendar.                                                               *)
Resolve(st) ==
    IF st.ok /\ st.rest = << >> /\ ValidYMD(st)
    THEN Some([y |-> st.y, m |-> st.m, d |-> st.d])
    ELSE None

(* The fields of a text read with "%Y-%m-%d", and with "%d.%m.%Y".         *)
fields_ymd(s) == Resolve(Day(Literal(Month(Literal(Year(Start(s)), "-")), "-")))

fields_dmy(s) == Resolve(Year(Literal(Month(Literal(Day(Start(s)), ".")), ".")))

Fields(s, fmt) == IF fmt = "%Y-%m-%d" THEN fields_ymd(s) ELSE fields_dmy(s)

(* The day of the calendar the fields name; a day outside the calendar is  *)
(* out of range.                                                           *)
to_naive_date(r) ==
    IF r # None /\ InCalendar(r[1]) THEN Some(Ordinal(r[1])) ELSE None

(* NaiveDate::parse_from_str(s, fmt): Some(day) for Ok, None for Err.      *)
parse_from_str(s, fmt) == to_naive_date(Fields(s, fmt))

-----------------------------------------------------------------------------
(* parse_dates_or_default.  The outcome is Ok with the dates, or a panic   *)
(* with the place that raised it.                                          *)

Ok(dates) == [kind |-> "Ok", dates |-> dates, why |-> "none"]

Panic(why) == [kind |-> "Panic", dates |-> << >>, why |-> why]

(* unwrap_or_else (lines 98-100): the second format is tried on an Err.    *)
unwrap_or_else(first, text) ==
    IF first # None THEN first ELSE parse_from_str(text, "%d.%m.%Y")

(* The closure of lines 97-101: one piece of the input read as a date.     *)
(* None is the unwrap of an Err.                                           *)
parse_date(date) ==
    unwrap_or_else(parse_from_str(trim(date), "%Y-%m-%d"), trim(date))

(* A loop that compares before it pushes. *)
RECURSIVE walk_exclusive(_, _, _)
walk_exclusive(current, last, dates) ==
    IF current = last THEN Ok(dates)
    ELSE IF succ_opt(current) = None THEN Panic("succ_opt")
    ELSE walk_exclusive(succ_opt(current)[1], last, Append(dates, current))

(* The loop of lines 108-116. *)
RECURSIVE walk(_, _, _)
walk(current, last, dates) ==
    IF current = last THEN Ok(Append(dates, current))
    ELSE IF succ_opt(current) = None THEN Panic("succ_opt")
    ELSE walk(succ_opt(current)[1], last, Append(dates, current))

(* Lines 103-120, on the collected vector. *)
ranged(v) ==
    IF \E i \in 1 .. Len(v) : v[i] = None THEN Panic("unwrap")
    ELSE IF Len(v) = 1 THEN Ok(<< v[1][1] >>)
    ELSE IF Len(v) = 2 THEN walk(v[1][1], v[2][1], << >>)
    ELSE Panic("Invalid date range")

(* Lines 95-102: every piece of the input, parsed. *)
collect(pieces) == [i \in 1 .. Len(pieces) |-> parse_date(pieces[i])]

parse_dates_or_default(input, now) ==
    IF input = None
    THEN ranged(<< parse_from_str(format(now), "%Y-%m-%d") >>)
    ELSE ranged(collect(split(input[1])))

(* The inputs the cut-down calendar can represent: every piece either is   *)
(* no date at all or names a day of the calendar.                          *)
OrFields(first, text) ==
    IF first # None THEN first ELSE Fields(text, "%d.%m.%Y")

Representable(r) == IF r = None THEN TRUE ELSE InCalendar(r[1])

InModelPieces(pieces) ==
    \A i \in 1 .. Len(pieces) :
        Representable(OrFields(Fields(trim(pieces[i]), "%Y-%m-%d"),
                               trim(pieces[i])))

InModel(text) == InModelPieces(split(text))

-----------------------------------------------------------------------------
(* The table home_office_days: a bag of text keys (key |-> number of      *)
(* rows).                                                                  *)

(* The store fails every INSERT and DELETE of the running process (a       *)
(* read-only or full database).                                            *)
VARIABLE store_fault

EmptyTable == [k \in {} |-> 0]

(* A schema whose date column is no key. *)
create_table_without_key == [primary_key |-> FALSE]

(* create_table: the schema; date is the primary key.                      *)
create_table == [primary_key |-> TRUE]

(* INSERT INTO home_office_days (date) VALUES (?1)                         *)
Insert(table, key) ==
    IF key \in DOMAIN table
    THEN IF create_table.primary_key
         THEN [err |-> "ConstraintViolation", table |-> table]
         ELSE [err |-> "none", table |-> [table EXCEPT ![key] = @ + 1]]
    ELSE [err |-> "none",
          table |-> [k \in DOMAIN table \cup {key} |->
                        IF k = key THEN 1 ELSE table[k]]]

(* DELETE FROM home_office_days WHERE date = ?1                            *)
Delete(table, key) == [k \in DOMAIN table \ {key} |-> table[k]]

(* Lines 202-218 on the outcome of the INSERT: a constraint violation      *)
(* returns Ok at line 211, every other outcome reaches the Ok of line 218. *)
inserted(r) ==
    [table |-> r.table,
     result |-> IF r.err = "ConstraintViolation" THEN "Ok" ELSE "Ok"]

(* conn.execute returns an Err that is no constraint violation. *)
Faulted(table) == [err |-> "Other", table |-> table]

(* Nothing is inserted. *)
add_date_nothing(table, date) == [table |-> table, result |-> "Ok"]

add_date(table, date) ==
    inserted(IF store_fault THEN Faulted(table)
             ELSE Insert(table, format(date)))

(* Only the first date is inserted. *)
add_dates_head(table, date) ==
    IF date = << >> THEN [table |-> table, result |-> "Ok"]
    ELSE add_date(table, Head(date))

RECURSIVE add_dates(_, _)
add_dates(table, date) ==
    IF date = << >> THEN [table |-> table, result |-> "Ok"]
    ELSE LET r == add_date(table, Head(date))
         IN  IF r.result # "Ok" THEN r ELSE add_dates(r.table, Tail(date))

(* Lines 280-288 on the outcome of the DELETE: an Err is printed, and     *)
(* either way line 288 returns Ok.                                         *)
deleted(r) == [table |-> r.table, result |-> "Ok"]

remove_date(table, date) ==
    deleted(IF store_fault THEN Faulted(table)
            ELSE [err |-> "none", table |-> Delete(table, format(date))])

(* Only the first date is deleted. *)
remove_dates_head(table, date) ==
    IF date = << >> THEN [table |-> table, result |-> "Ok"]
    ELSE remove_date(table, Head(date))

RECURSIVE remove_dates(_, _)
remove_dates(table, date) ==
    IF date = << >> THEN [table |-> table, result |-> "Ok"]
    ELSE LET r == remove_date(table, Head(date))
         IN  IF r.result # "Ok" THEN r ELSE remove_dates(r.table, Tail(date))

-----------------------------------------------------------------------------
(* get_export.                                                             *)

(* Text order of the keys (ORDER BY date on a TEXT column).                *)
RECURSIVE TextLess(_, _)
TextLess(a, b) ==
    IF b = << >> THEN FALSE
    ELSE IF a = << >> THEN TRUE
    ELSE IF Head(a) # Head(b) THEN CharCode(Head(a)) < CharCode(Head(b))
    ELSE TextLess(Tail(a), Tail(b))

Repeat(v, k) == [i \in 1 .. k |-> v]

(* SELECT date FROM home_office_days ORDER BY date                         *)
RECURSIVE select_ordered(_)
select_ordered(table) ==
    IF DOMAIN table = {} THEN << >>
    ELSE LET k == CHOOSE a \in DOMAIN table :
                      \A b \in DOMAIN table : a = b \/ TextLess(a, b)
         IN  Repeat(k, table[k]) \o select_ordered(Delete(table, k))

(* The scan of lines 321-338 from row i on, with the current run           *)
(* (start, end) and the ranges closed so far.  panic is the expect of      *)
(* line 328 on a succ_opt that is None.                                    *)
RECURSIVE scan(_, _, _, _, _)
scan(rows, i, start, end, ranges) ==
    IF i > Len(rows)
    THEN [panic |-> FALSE, ranges |-> Append(ranges, << start, end >>)]
    ELSE IF succ_opt(end) = None THEN [panic |-> TRUE, ranges |-> ranges]
    ELSE IF rows[i] = succ_opt(end)[1]
         THEN scan(rows, i + 1, start, rows[i], ranges)
         ELSE scan(rows, i + 1, rows[i], rows[i],
                   Append(ranges, << start, end >>))

(* A scan that never extends a run. *)
compress_no_merge(rows) ==
    [panic |-> FALSE,
     ranges |-> [i \in 1 .. Len(rows) |-> << rows[i], rows[i] >>]]

(* Lines 317-339: the ranges of the rows. *)
compress(rows) ==
    IF rows = << >> THEN [panic |-> FALSE, ranges |-> << >>]
    ELSE scan(rows, 2, rows[1], rows[1], << >>)

(* A range is rendered as its first day. *)
render_start_only(range) == format(range[1])

(* Lines 340-352: one text per range. *)
render(range) ==
    IF range[1] = range[2] THEN format(range[1])
    ELSE format(range[1]) \o << " ", ":", ":", " " >> \o format(range[2])

(* Lines 304-315: every row parsed as "%Y-%m-%d". *)
query_map(keys) ==
    [i \in 1 .. Len(keys) |-> parse_from_str(keys[i], "%Y-%m-%d")]

rendered(ranges) == [i \in 1 .. Len(ranges) |-> render(ranges[i])]

unwrapped(rows) == [i \in 1 .. Len(rows) |-> rows[i][1]]

(* Lines 340-354 on the ranges: Ok(texts), unless the scan panicked.       *)
closed(c) ==
    IF c.panic THEN [ok |-> FALSE, v |-> << >>]
    ELSE [ok |-> TRUE, v |-> rendered(c.ranges)]

(* Ok(texts); ok is FALSE for the Err of a stored key that is no date and  *)
(* for the panic of the scan, which every caller here turns into a panic.  *)
exported(rows) ==
    IF \E i \in 1 .. Len(rows) : rows[i] = None
    THEN [ok |-> FALSE, v |-> << >>]
    ELSE closed(compress(unwrapped(rows)))

get_export(table) == exported(query_map(select_ordered(table)))

-----------------------------------------------------------------------------
(* The program's state.                                                    *)

VARIABLES
    build,           \* "debug" | "release": cfg(debug_assertions)
    today,           \* the day Local::now() falls on
    table,           \* the rows of home_office_days
    pc,              \* "shell": no process runs; "cli": a one-shot
                     \* subcommand starts; "tui": run_tui awaits an event
    action,          \* Args.action of the running process
    date,            \* the date argument of Action::Add / Action::Remove
    exit,            \* how the last process ended: "none" while one runs,
                     \* "ok", "err", or the panic that ended it
    raw_mode,        \* the terminal is in raw mode
    dates,           \* AppState.dates
    selected_index,  \* AppState.selected_index
    input_box,       \* AppState.input_box: Option<String>
    input_mode,      \* AppState.input_mode: "Add" | "Remove"
    key,             \* the key event the last event::read() returned
    parsed           \* the outcome of the last step's call of
                     \* parse_dates_or_default, NotCalled if it made none

vars == << build, today, table, pc, action, date, exit, raw_mode, dates,
           selected_index, input_box, input_mode, key, parsed, store_fault >>

app == << dates, selected_index, input_box, input_mode >>

(* The texts a user gives as the argument of a one-shot subcommand.        *)
Sep == << ":", ":" >>

Texts ==
    {format(a) : a \in NaiveDate}
        \cup {format_dmy(a) : a \in NaiveDate}
        \cup {format(a) \o Sep \o format(b) : a, b \in NaiveDate}
        \cup {format_dmy(0) \o << " " >> \o Sep \o << " " >> \o format(1),
              format(0) \o Sep \o format(1) \o Sep \o format(2),
              << "a" >> \o Sep \o << "d" >> \o Sep \o << "q" >>,
              format(Today) \o << "q" >>, format(Today) \o << " " >>,
              << >>, << " ", " " >>, << "q" >>, << "d" >>}

(* The characters of the keyboard. *)
Chars ==
    {"0", "1", "2", "3", "4", "5", "6", "7", "8", "9", "-", ".", ":", " ",
     "a", "d", "q"}

IsPrefix(s, t) == Len(s) <= Len(t) /\ Take(t, Len(s)) = s

(* The texts a user types character by character into the input box: what *)
(* is typed stays on the way to one of them.                               *)
Typed ==
    {format(a) : a \in NaiveDate}
        \cup {format(Today) \o Sep \o format(b) : b \in NaiveDate}
        \cup {format_dmy(Today),
              format(Today) \o << "q" >>, format(Today) \o << " " >>,
              << " ", " " >>, << "q" >>, << "a" >>, << "d" >>}

Typable(s) == \E t \in Typed : IsPrefix(s, t)

NotCalled == [kind |-> "NotCalled", dates |-> << >>, why |-> "none"]

(* Key events: a code, the character of a Char, the kind and the CONTROL   *)
(* modifier.                                                               *)
Key(code, ch, ctrl) == [code |-> code, ch |-> ch, kind |-> "Press", ctrl |-> ctrl]

Release(k) == [k EXCEPT !.kind = "Release"]

NoKey == [code |-> "None", ch |-> "", kind |-> "None", ctrl |-> FALSE]

Enter == Key("Enter", "", FALSE)

Esc == Key("Esc", "", FALSE)

CtrlC == Key("Char", "c", TRUE)

CharKeys == {Key("Char", ch, FALSE) : ch \in Chars}

Init ==
    /\ build \in {"debug", "release"}
    /\ today = Today
    /\ table = EmptyTable
    /\ pc = "shell"
    /\ action = "None"
    /\ date = None
    /\ exit = "none"
    /\ raw_mode = FALSE
    /\ dates = << >>
    /\ selected_index = 0
    /\ input_box = None
    /\ input_mode = "Add"
    /\ key = NoKey
    /\ parsed = NotCalled
    /\ store_fault = FALSE

-----------------------------------------------------------------------------
(* AppState's methods, as functions of the fields they read.               *)

(* AppState::update: the view is read again; panic is the unwrap of an     *)
(* Err of get_export.                                                      *)
refreshed(export, view) ==
    IF export.ok THEN [panic |-> FALSE, dates |-> export.v]
    ELSE [panic |-> TRUE, dates |-> view]

(* The view is left as it is. *)
update_stale(tbl, view) == [panic |-> FALSE, dates |-> view]

update(tbl, view) == refreshed(get_export(tbl), view)

(* AppState::new: the fields of a fresh state; panic is the unwrap of an   *)
(* Err of get_export.                                                      *)
new(tbl) ==
    [panic |-> ~get_export(tbl).ok, dates |-> get_export(tbl).v,
     selected_index |-> 0, input_box |-> None, input_mode |-> "Add"]

(* AppState::start_input: the text the input box opens with.               *)
start_input(mode, view, index, now) ==
    IF mode = "Add" THEN format(now)
    ELSE IF index < Len(view) THEN view[index + 1] ELSE << >>

(* The box is read and left as it is. *)
take_input_peek(box) == [taken |-> box, input_box |-> box]

(* AppState::take_input: what is taken, and what is left in the box.       *)
take_input(box) == [taken |-> box, input_box |-> None]

(* The outcome of add_string and remove_selected_string: whether it       *)
(* panicked and why, the table and the view it leaves, what it parsed.     *)
Outcome(u, why, tbl, p) ==
    [panic |-> u.panic, why |-> why, table |-> tbl, dates |-> u.dates,
     parsed |-> p]

(* The unwrap of the Result of add_dates or remove_dates, then update.     *)
stored(r, view, p) ==
    IF r.result # "Ok"
    THEN Outcome([panic |-> TRUE, dates |-> view], "unwrap", r.table, p)
    ELSE Outcome(update(r.table, view), "unwrap", r.table, p)

added(tbl, view, p) ==
    IF p.kind = "Panic"
    THEN Outcome([panic |-> TRUE, dates |-> view], p.why, tbl, p)
    ELSE stored(add_dates(tbl, p.dates), view, p)

(* AppState::add_string *)
add_string(tbl, view, text, now) ==
    added(tbl, view, parse_dates_or_default(Some(text), now))

removed(tbl, view, p) ==
    IF p.kind = "Panic"
    THEN Outcome([panic |-> TRUE, dates |-> view], p.why, tbl, p)
    ELSE stored(remove_dates(tbl, p.dates), view, p)

(* AppState::remove_selected_string *)
remove_selected_string(tbl, view, text, now) ==
    removed(tbl, view, parse_dates_or_default(Some(text), now))

(* The second update of line 548, after an add_string that returned.      *)
again(r) ==
    IF r.panic THEN r
    ELSE Outcome(update(r.table, r.dates), "unwrap", r.table, r.parsed)

(* AppState::move_selection_up *)
move_selection_up(index) == IF index > 0 THEN index - 1 ELSE index

(* AppState::move_selection_down; len - 1 saturates at 0.                  *)
move_selection_down(index, view) ==
    LET last == IF Len(view) = 0 THEN 0 ELSE Len(view) - 1
    IN  IF index < last THEN index + 1 ELSE index

-----------------------------------------------------------------------------
(* main and run: how a process starts and ends.                            *)

(* The raw mode main leaves behind (lines 161-181).  The release build     *)
(* catches a panic of run and reaches line 168; in the debug build the     *)
(* panic unwinds through main and line 168 is never reached.               *)
main(raw, panicked) ==
    IF panicked /\ build = "debug" THEN raw ELSE FALSE

(* The process ends with "ok", with "err" (run returned an Err) or with    *)
(* the panic `how`; its state is dropped.                                  *)
Ends(how, raw) ==
    /\ pc' = "shell"
    /\ exit' = how
    /\ raw_mode' = main(raw, how \notin {"ok", "err"})
    /\ action' = "None"
    /\ date' = None
    /\ dates' = << >>
    /\ selected_index' = 0
    /\ input_box' = None
    /\ input_mode' = "Add"
    /\ store_fault' = FALSE

(* `add [date]` or `remove [date]` is started: Args::parse (line 126).     *)
RunCli ==
    /\ pc = "shell" /\ ~raw_mode
    /\ pc' = "cli"
    /\ action' \in {"Add", "Remove"}
    /\ \E arg \in {None} \cup {Some(a) : a \in Texts} :
        /\ IF arg = None THEN TRUE ELSE InModel(arg[1])
        /\ date' = arg
    /\ exit' = "none"
    /\ parsed' = NotCalled
    /\ key' = NoKey
    /\ store_fault' \in BOOLEAN
    /\ UNCHANGED << build, today, table, raw_mode, app >>

(* Action::Add (line 156): the argument is parsed, the dates are added     *)
(* and the process ends.                                                   *)
CliAdd ==
    /\ pc = "cli" /\ action = "Add"
    /\ parsed' = parse_dates_or_default(date, today)
    /\ IF parsed'.kind = "Panic"
       THEN table' = table /\ Ends(parsed'.why, raw_mode)
       ELSE /\ table' = add_dates(table, parsed'.dates).table
            /\ Ends(IF add_dates(table, parsed'.dates).result = "Ok"
                    THEN "ok" ELSE "err", raw_mode)
    /\ UNCHANGED << build, today, key >>

(* Action::Remove (line 157). *)
CliRemove ==
    /\ pc = "cli" /\ action = "Remove"
    /\ parsed' = parse_dates_or_default(date, today)
    /\ IF parsed'.kind = "Panic"
       THEN table' = table /\ Ends(parsed'.why, raw_mode)
       ELSE /\ table' = remove_dates(table, parsed'.dates).table
            /\ Ends(IF remove_dates(table, parsed'.dates).result = "Ok"
                    THEN "ok" ELSE "err", raw_mode)
    /\ UNCHANGED << build, today, key >>

(* Action::Tui (lines 145-148): AppState::new, then enable_raw_mode        *)
(* (lines 441-443).                                                        *)
RunTui ==
    /\ pc = "shell" /\ ~raw_mode
    /\ parsed' = NotCalled
    /\ key' = NoKey
    /\ IF new(table).panic THEN Ends("unwrap", raw_mode)
       ELSE /\ pc' = "tui"
            /\ action' = "Tui"
            /\ exit' = "none"
            /\ raw_mode' = TRUE
            /\ dates' = new(table).dates
            /\ selected_index' = new(table).selected_index
            /\ input_box' = new(table).input_box
            /\ input_mode' = new(table).input_mode
            /\ UNCHANGED << date, store_fault >>
    /\ UNCHANGED << build, today, table >>

(* The user restores a terminal that a process left in raw mode.           *)
ResetTerminal ==
    /\ pc = "shell" /\ raw_mode
    /\ raw_mode' = FALSE
    /\ UNCHANGED << build, today, table, pc, action, date, exit, app, key,
                    parsed, store_fault >>

-----------------------------------------------------------------------------
(* run_tui: one action per branch of the event dispatch (lines 496-559).   *)

Editing == pc = "tui" /\ input_box # None

Browsing == pc = "tui" /\ input_box = None

(* The loop goes round with the process and the terminal as they are.      *)
Loops ==
    UNCHANGED << build, today, pc, action, date, exit, raw_mode, store_fault >>

(* terminal.draw, event::read or terminal.clear returns an Err: run_tui    *)
(* returns it and run's unwrap (line 146) panics.  No key is read.         *)
IoError ==
    /\ pc = "tui"
    /\ key' = NoKey
    /\ parsed' = NotCalled
    /\ Ends("io", raw_mode)
    /\ UNCHANGED << build, today, table >>

(* An event that is no key event (line 496): nothing is bound to key.      *)
NotAKey ==
    /\ pc = "tui"
    /\ UNCHANGED vars

(* A key event whose kind is not Press: neither dispatch handles it.       *)
KeyRelease ==
    /\ pc = "tui"
    /\ key' = Release(CtrlC)
    /\ parsed' = NotCalled
    /\ Loops
    /\ UNCHANGED << table, app >>

(* Ctrl-C that is looked at only while browsing. *)
ForceQuitWhileBrowsing ==
    /\ pc = "tui" /\ input_box = None
    /\ key' = CtrlC
    /\ parsed' = NotCalled
    /\ Ends("ok", FALSE)
    /\ UNCHANGED << build, today, table >>

(* Ctrl-C (lines 497-503): break, then disable_raw_mode (line 563).        *)
ForceQuit ==
    /\ pc = "tui"
    /\ key' = CtrlC
    /\ parsed' = NotCalled
    /\ Ends("ok", FALSE)
    /\ UNCHANGED << build, today, table >>

(* What add_string or remove_selected_string leaves behind: the loop goes *)
(* on with the new table and view, or the panic ends the process.          *)
Confirmed(r) ==
    /\ parsed' = r.parsed
    /\ table' = r.table
    /\ IF r.panic
       THEN /\ pc' = "shell"
            /\ exit' = r.why
            /\ raw_mode' = main(raw_mode, TRUE)
            /\ action' = "None"
            /\ dates' = << >>
            /\ selected_index' = 0
            /\ input_mode' = "Add"
            /\ UNCHANGED << build, today, date, store_fault >>
       ELSE /\ dates' = r.dates
            /\ Loops
            /\ UNCHANGED << selected_index, input_mode >>

(* Esc in the input box (lines 507-509). *)
EditEsc ==
    /\ Editing
    /\ key' = Esc
    /\ input_box' = take_input(input_box).input_box
    /\ parsed' = NotCalled
    /\ Loops
    /\ UNCHANGED << table, dates, selected_index, input_mode >>

(* Enter in the input box (lines 510-521). *)
EditEnter ==
    /\ Editing
    /\ InModel(input_box[1])
    /\ key' = Enter
    /\ input_box' = take_input(input_box).input_box
    /\ IF trim(take_input(input_box).taken[1]) = << >>
       THEN /\ parsed' = NotCalled
            /\ Loops
            /\ UNCHANGED << table, dates, selected_index, input_mode >>
       ELSE IF input_mode = "Add"
       THEN Confirmed(add_string(table, dates, take_input(input_box).taken[1],
                                 today))
       ELSE Confirmed(remove_selected_string(
                          table, dates, take_input(input_box).taken[1], today))

(* A character in the input box that is dispatched as while browsing: q   *)
(* ends the loop, a and d open the input box anew.                         *)
EditCharAsCommand ==
    /\ Editing
    /\ \E k \in CharKeys :
        /\ key' = k
        /\ IF k.ch = "q"
           THEN Ends("ok", FALSE) /\ UNCHANGED << build, today >>
           ELSE /\ Loops
                /\ IF k.ch \in {"a", "d"}
                   THEN /\ input_mode' = IF k.ch = "a" THEN "Add" ELSE "Remove"
                        /\ input_box' = Some(start_input(input_mode', dates,
                                                         selected_index, today))
                   ELSE /\ Typable(Append(input_box[1], k.ch))
                        /\ input_box' = Some(Append(input_box[1], k.ch))
                        /\ UNCHANGED input_mode
                /\ UNCHANGED << dates, selected_index >>
    /\ parsed' = NotCalled
    /\ UNCHANGED table

(* A character in the input box (lines 522-526). *)
EditChar ==
    /\ Editing
    /\ \E k \in CharKeys :
        /\ Typable(Append(input_box[1], k.ch))
        /\ key' = k
        /\ input_box' = Some(Append(input_box[1], k.ch))
    /\ parsed' = NotCalled
    /\ Loops
    /\ UNCHANGED << table, dates, selected_index, input_mode >>

(* Backspace in the input box (lines 527-531): String::pop.                *)
EditBackspace ==
    /\ Editing
    /\ key' = Key("Backspace", "", FALSE)
    /\ input_box' = Some(IF input_box[1] = << >> THEN << >>
                         ELSE Take(input_box[1], Len(input_box[1]) - 1))
    /\ parsed' = NotCalled
    /\ Loops
    /\ UNCHANGED << table, dates, selected_index, input_mode >>

(* Any other key in the input box (line 532). *)
EditOther ==
    /\ Editing
    /\ key' = Key("Up", "", FALSE)
    /\ parsed' = NotCalled
    /\ Loops
    /\ UNCHANGED << table, app >>

(* q or Esc while browsing (line 537): break, then disable_raw_mode.       *)
BrowseQuit ==
    /\ Browsing
    /\ key' \in {Esc, Key("Char", "q", FALSE)}
    /\ parsed' = NotCalled
    /\ Ends("ok", FALSE)
    /\ UNCHANGED << build, today, table >>

(* a while browsing (lines 538-540). *)
BrowseAdd ==
    /\ Browsing
    /\ key' = Key("Char", "a", FALSE)
    /\ input_mode' = "Add"
    /\ input_box' = Some(start_input("Add", dates, selected_index, today))
    /\ parsed' = NotCalled
    /\ Loops
    /\ UNCHANGED << table, dates, selected_index >>

(* d that opens the input box whatever the view holds. *)
BrowseRemoveUnguarded ==
    /\ Browsing
    /\ key' = Key("Char", "d", FALSE)
    /\ input_mode' = "Remove"
    /\ input_box' = Some(start_input("Remove", dates, selected_index, today))
    /\ parsed' = NotCalled
    /\ Loops
    /\ UNCHANGED << table, dates, selected_index >>

(* d while browsing (lines 541-545). *)
BrowseRemove ==
    /\ Browsing
    /\ key' = Key("Char", "d", FALSE)
    /\ IF dates # << >>
       THEN /\ input_mode' = "Remove"
            /\ input_box' =
                   Some(start_input("Remove", dates, selected_index, today))
       ELSE UNCHANGED << input_mode, input_box >>
    /\ parsed' = NotCalled
    /\ Loops
    /\ UNCHANGED << table, dates, selected_index >>

(* Enter while browsing (lines 546-549): add_string of today's text, then  *)
(* update once more.                                                       *)
BrowseEnter ==
    /\ Browsing
    /\ key' = Enter
    /\ Confirmed(again(add_string(table, dates, format(today), today)))
    /\ UNCHANGED input_box

(* Up while browsing (lines 550-552). *)
BrowseUp ==
    /\ Browsing
    /\ key' = Key("Up", "", FALSE)
    /\ selected_index' = move_selection_up(selected_index)
    /\ parsed' = NotCalled
    /\ Loops
    /\ UNCHANGED << table, dates, input_box, input_mode >>

(* Down while browsing (lines 553-555). *)
BrowseDown ==
    /\ Browsing
    /\ key' = Key("Down", "", FALSE)
    /\ selected_index' = move_selection_down(selected_index, dates)
    /\ parsed' = NotCalled
    /\ Loops
    /\ UNCHANGED << table, dates, input_box, input_mode >>

(* Any other key while browsing (line 556). *)
BrowseOther ==
    /\ Browsing
    /\ \/ key' = Key("Backspace", "", FALSE)
       \/ \E k \in CharKeys : k.ch \notin {"q", "a", "d"} /\ key' = k
    /\ parsed' = NotCalled
    /\ Loops
    /\ UNCHANGED << table, app >>

Next ==
    \/ RunCli
    \/ CliAdd
    \/ CliRemove
    \/ RunTui
    \/ ResetTerminal
    \/ IoError
    \/ NotAKey
    \/ KeyRelease
    \/ ForceQuit
    \/ EditEsc
    \/ EditEnter
    \/ EditChar
    \/ EditBackspace
    \/ EditOther
    \/ BrowseQuit
    \/ BrowseAdd
    \/ BrowseRemove
    \/ BrowseEnter
    \/ BrowseUp
    \/ BrowseDown
    \/ BrowseOther

Spec == Init /\ [][Next]_vars

-----------------------------------------------------------------------------
(* Properties.                                                             *)

SeqSet(q) == {q[i] : i \in 1 .. Len(q)}

(* The days the store holds, and the rows get_export reads from it.        *)
Days(tbl) == {n \in NaiveDate : format(n) \in DOMAIN tbl}

Rows(tbl) == unwrapped(query_map(select_ordered(tbl)))

Ascending(rows) == \A i \in 1 .. Len(rows) - 1 : rows[i] < rows[i + 1]

Jan(d) == << "2", "0", "2", "5", "-", "0", "1", "-", "0", d >>

(* The argument of the call of parse_dates_or_default that a step from     *)
(* this state makes, when it makes one: the subcommand's date, the text    *)
(* taken from the input box, or today's date on Enter while browsing.      *)
CallInput ==
    IF pc = "cli" THEN date
    ELSE IF input_box # None THEN input_box
    ELSE Some(format(today))

(* A step that calls parse_dates_or_default. *)
Calls == pc \in {"cli", "tui"} /\ parsed' # NotCalled

Endpoints(input) ==
    IF input = None THEN << >> ELSE collect(split(input[1]))

(* `input` has two pieces and both are dates. *)
TwoDates(input) ==
    /\ Len(Endpoints(input)) = 2
    /\ Endpoints(input)[1] # None
    /\ Endpoints(input)[2] # None

First(input) == Endpoints(input)[1][1]

Last(input) == Endpoints(input)[2][1]

Inclusive(a, b) == [i \in 1 .. (b - a + 1) |-> a + i - 1]

(* A step that confirms the input box with Enter. *)
Confirms == pc = "tui" /\ input_box # None /\ key' = Enter

Blank(box) == trim(box[1]) = << >>

(* C1: whenever the rows the store hands to get_export are ascending and   *)
(* free of duplicates, its ranges have start <= end, are ascending with at *)
(* least one missing day between neighbours, are maximal and expand to     *)
(* exactly the days of the store; a one-day range is rendered as its date, *)
(* a longer one as "start :: end"; the store {2025-01-01, 2025-01-02,      *)
(* 2025-01-03} exports as the one entry "2025-01-01 :: 2025-01-03".        *)
C1_ExportRanges ==
    LET rows == Rows(table)
        R == compress(rows).ranges
        E == get_export(table)
        D == Days(table)
    IN  (Ascending(rows) /\ \A k \in DOMAIN table : table[k] = 1) =>
            /\ E.ok
            /\ Len(E.v) = Len(R)
            /\ \A i \in 1 .. Len(R) :
                /\ R[i][1] <= R[i][2]
                /\ (R[i][1] - 1) \notin D
                /\ (R[i][2] + 1) \notin D
                /\ E.v[i] = IF R[i][1] = R[i][2] THEN format(R[i][1])
                            ELSE format(R[i][1])
                                     \o << " ", ":", ":", " " >>
                                     \o format(R[i][2])
            /\ \A i \in 1 .. Len(R) - 1 : R[i][2] + 1 < R[i + 1][1]
            /\ UNION {R[i][1] .. R[i][2] : i \in 1 .. Len(R)} = D
            /\ Cardinality(D) = Cardinality(DOMAIN table)
            /\ (DOMAIN table = {Jan("1"), Jan("2"), Jan("3")} =>
                    E.v = << Jan("1") \o << " ", ":", ":", " " >>
                                 \o Jan("3") >>)

C1_Witness ==
    /\ pc = "tui"
    /\ DOMAIN table = {Jan("1"), Jan("2"), Jan("3")}
    /\ dates = << Jan("1") \o << " ", ":", ":", " " >> \o Jan("3") >>
    /\ dates = get_export(table).v

(* C2: a call of parse_dates_or_default on a two-piece input whose         *)
(* endpoints are dates A <= B returns exactly A, A+1, ..., B.              *)
C2_InclusiveRange ==
    [][(Calls /\ TwoDates(CallInput) /\ First(CallInput) <= Last(CallInput))
           => parsed' = Ok(Inclusive(First(CallInput), Last(CallInput)))]_vars

C2_Witness ==
    /\ pc = "shell"
    /\ exit = "ok"
    /\ parsed = Ok(<< 0, 1, 2 >>)

(* C3: a call of parse_dates_or_default on a two-piece input whose first   *)
(* endpoint is after the second ends with a defined outcome, a ParseError  *)
(* or the swapped range; it never walks off the end of the calendar.       *)
C3_ReversedRangeDefined ==
    [][(Calls /\ TwoDates(CallInput) /\ First(CallInput) > Last(CallInput))
           => \/ parsed'.kind = "ParseError"
              \/ parsed' = Ok(Inclusive(Last(CallInput), First(CallInput)))]_vars

(* A text that is neither a date nor a range of two dates. *)
Malformed(text) ==
    \/ Len(split(text)) \notin {1, 2}
    \/ \E i \in 1 .. Len(split(text)) : parse_date(split(text)[i]) = None

(* C4: Enter on an input box whose text is no date and no range does not   *)
(* end the session, the loop awaits the next event, and the store is       *)
(* unchanged.                                                              *)
C4_MalformedConfirmSurvives ==
    [][(Confirms /\ ~Blank(input_box) /\ Malformed(input_box[1]))
           => (pc' = "tui" /\ exit' = "none" /\ table' = table)]_vars

(* C5: Enter on an empty or whitespace-only input box changes nothing: the *)
(* box stays open with the same text and mode, and the store, the view and *)
(* the selected index are unchanged.                                       *)
C5_BlankConfirmNoOp ==
    [][(Confirms /\ Blank(input_box))
           => /\ pc' = "tui"
              /\ input_box' = input_box
              /\ input_mode' = input_mode
              /\ table' = table
              /\ dates' = dates
              /\ selected_index' = selected_index]_vars

(* C6: while the loop awaits an event the selected index is 0 on an empty  *)
(* view and below the length of a view that has entries.                   *)
C6_SelectionInBounds ==
    pc = "tui" =>
        IF dates = << >> THEN selected_index = 0
        ELSE selected_index \in 0 .. (Len(dates) - 1)

(* C7: raw mode is on while the loop runs and off once the process has     *)
(* ended, however it ended, in the debug build and the release build.      *)
C7_RawModeScoped ==
    /\ pc = "tui" => raw_mode
    /\ (pc = "shell" /\ exit # "none") => ~raw_mode

(* A step that inserts the dates it parsed, with a store that executes     *)
(* the INSERT: `add`, Enter on an input box in Add mode, Enter while       *)
(* browsing.                                                               *)
Adds ==
    /\ \/ pc = "cli" /\ action = "Add"
       \/ pc = "tui" /\ key' = Enter /\ (input_box = None \/ input_mode = "Add")
    /\ parsed' # NotCalled
    /\ parsed'.kind = "Ok"
    /\ ~store_fault

(* C8: an insert of dates the store already holds reports success and      *)
(* leaves the store as it was; after any insert every inserted date is in  *)
(* the store exactly once.                                                 *)
C8_InsertIdempotent ==
    [][Adds =>
           /\ IF pc = "cli" THEN exit' = "ok" ELSE pc' = "tui"
           /\ \A d \in SeqSet(parsed'.dates) :
                  format(d) \in DOMAIN table' /\ table'[format(d)] = 1
           /\ (SeqSet(parsed'.dates) \subseteq Days(table)) => table' = table]_vars

(* `add` of today's date is about to run on a store that holds it, put     *)
(* there by an earlier insert of the same date.                            *)
C8_Witness ==
    /\ pc = "cli"
    /\ action = "Add"
    /\ date = Some(format(Today))
    /\ format(Today) \in DOMAIN table
    /\ table[format(Today)] = 1

(* C9: Enter on an input box in Add mode whose text parses to the dates P  *)
(* leaves the store as the old store united with P, the view as the        *)
(* rendering of the new store, no input box, and the loop running.         *)
C9_AddConfirm ==
    [][(Confirms /\ input_mode = "Add" /\ ~Blank(input_box)
            /\ parsed'.kind = "Ok")
           => /\ parsed' = parse_dates_or_default(input_box, today)
              /\ Days(table') = Days(table) \cup SeqSet(parsed'.dates)
              /\ \A k \in DOMAIN table' : table'[k] = 1
              /\ Cardinality(DOMAIN table') = Cardinality(Days(table'))
              /\ dates' = rendered(compress(Rows(table')).ranges)
              /\ input_box' = None
              /\ pc' = "tui"]_vars

(* The range today :: day after, typed in Add mode, has been confirmed.    *)
C9_Witness ==
    /\ pc = "tui"
    /\ key = Enter
    /\ input_mode = "Add"
    /\ input_box = None
    /\ parsed = Ok(<< Today, Today + 1 >>)
    /\ {Today, Today + 1} \subseteq Days(table)

(* C10: Enter on an input box in Remove mode whose text parses to the      *)
(* dates P leaves the store as the old store without P, whether or not the *)
(* dates of P were in it, the view as the rendering of the new store, no   *)
(* input box, and the loop running.                                        *)
C10_RemoveConfirm ==
    [][(Confirms /\ input_mode = "Remove" /\ ~Blank(input_box)
            /\ parsed'.kind = "Ok")
           => /\ parsed' = parse_dates_or_default(input_box, today)
              /\ DOMAIN table' = DOMAIN table
                                     \ {format(d) : d \in SeqSet(parsed'.dates)}
              /\ \A k \in DOMAIN table' : table'[k] = table[k]
              /\ dates' = rendered(compress(Rows(table')).ranges)
              /\ input_box' = None
              /\ pc' = "tui"]_vars

(* A range of two days has been removed in Remove mode, and another day   *)
(* is left in the store.                                                   *)
C10_Witness ==
    /\ pc = "tui"
    /\ key = Enter
    /\ input_mode = "Remove"
    /\ input_box = None
    /\ parsed.kind = "Ok"
    /\ Len(parsed.dates) = 2
    /\ Days(table) # {}
    /\ Days(table) \cap SeqSet(parsed.dates) = {}

(* C11: Esc on an input box, in Add or Remove mode and whatever the box    *)
(* holds, closes the box and keeps the loop running; the store, the view   *)
(* and the selected index are unchanged.                                   *)
C11_CancelEditing ==
    [][(pc = "tui" /\ input_box # None /\ key' = Esc)
           => /\ pc' = "tui"
              /\ exit' = "none"
              /\ input_box' = None
              /\ parsed' = NotCalled
              /\ table' = table
              /\ dates' = dates
              /\ selected_index' = selected_index]_vars

(* An input box of Remove mode has been cancelled. *)
C11_Witness ==
    /\ pc = "tui"
    /\ key = Esc
    /\ input_box = None
    /\ input_mode = "Remove"
    /\ dates # << >>

(* C12: Ctrl-C is taken in every state in which the loop awaits an event,  *)
(* browsing or editing; it ends the process at once, without parsing the   *)
(* input box, with the store as it was and raw mode off.                   *)
C12_ForceQuit ==
    /\ [](pc = "tui" => ENABLED ForceQuit)
    /\ [][(pc = "tui" /\ key' = CtrlC)
              => /\ pc' = "shell"
                 /\ exit' = "ok"
                 /\ input_box' = None
                 /\ parsed' = NotCalled
                 /\ table' = table
                 /\ ~raw_mode']_vars

(* The process has ended on Ctrl-C with days in the store. *)
C12_Witness ==
    /\ pc = "shell"
    /\ key = CtrlC
    /\ exit = "ok"
    /\ ~raw_mode
    /\ DOMAIN table # {}

(* C13: a call of parse_dates_or_default on an input of three or more      *)
(* pieces returns a ParseError to its caller with no dates; the process    *)
(* does not panic.                                                         *)
C13_ThreeTokensParseError ==
    [][(Calls /\ CallInput # None /\ Len(split(CallInput[1])) >= 3)
           => /\ parsed'.kind = "ParseError"
              /\ parsed'.dates = << >>
              /\ exit' \in {"none", "ok", "err"}]_vars

(* C14: a one-shot add or remove whose INSERT or DELETE fails in the store *)
(* ends the process with failure.                                          *)
C14_StoreFailureIsFatal ==
    [][(pc = "cli" /\ store_fault /\ parsed' # NotCalled
            /\ parsed'.kind = "Ok")
           => (exit' # "ok" /\ exit' # "none")]_vars

(* A step that reads Up or Down while browsing. *)
Selects ==
    /\ pc = "tui"
    /\ input_box = None
    /\ key' \in {Key("Up", "", FALSE), Key("Down", "", FALSE)}

(* C15: Up and Down while browsing change the selected index by at most    *)
(* one; an index within the view stays within it; on an empty view they    *)
(* change nothing and the index stays 0.                                   *)
C15_SelectionMoves ==
    [][Selects =>
           /\ selected_index' - selected_index \in {-1, 0, 1}
           /\ dates' = dates
           /\ selected_index < Len(dates) => selected_index' < Len(dates)
           /\ dates = << >> =>
                  (selected_index' = selected_index /\ selected_index' = 0)]_vars

(* A step that reads d while browsing. *)
BeginsRemove ==
    /\ pc = "tui"
    /\ input_box = None
    /\ key' = Key("Char", "d", FALSE)

(* C16: d while browsing an empty view changes nothing: no input box       *)
(* opens, and the input mode, the selected index, the view and the store   *)
(* are unchanged.                                                          *)
C16_RemoveOnEmptyView ==
    [][(BeginsRemove /\ dates = << >>)
           => /\ pc' = "tui"
              /\ input_box' = None
              /\ input_mode' = input_mode
              /\ selected_index' = selected_index
              /\ dates' = dates
              /\ table' = table]_vars

(* d has been read while browsing an empty view. *)
C16_Witness ==
    /\ pc = "tui"
    /\ key = Key("Char", "d", FALSE)
    /\ input_box = None
    /\ dates = << >>

(* C17: d while browsing a view that has entries opens the input box in    *)
(* Remove mode with the entry at the selected index, a text the view       *)
(* shows, never an empty text.                                             *)
C17_RemoveSeedIsSelected ==
    [][(BeginsRemove /\ dates # << >>)
           => /\ input_mode' = "Remove"
              /\ input_box' # None
              /\ input_box'[1] # << >>
              /\ input_box'[1] \in SeqSet(dates)
              /\ selected_index < Len(dates)
              /\ input_box'[1] = dates[selected_index + 1]]_vars

(* A step that reads Enter while browsing. *)
QuickAdds ==
    /\ pc = "tui"
    /\ input_box = None
    /\ key' = Enter

(* C18: Enter while browsing adds today's date without opening the input   *)
(* box: the store becomes the old store united with today, the view the    *)
(* rendering of the new store, and when today is already stored nothing    *)
(* changes.                                                                *)
C18_QuickAdd ==
    [][QuickAdds =>
           /\ pc' = "tui"
           /\ input_box' = None
           /\ parsed' = Ok(<< today >>)
           /\ DOMAIN table' = DOMAIN table \cup {format(today)}
           /\ \A k \in DOMAIN table' : table'[k] = 1
           /\ dates' = rendered(compress(Rows(table')).ranges)
           /\ UNCHANGED << selected_index, input_mode >>
           /\ format(today) \in DOMAIN table =>
                  (table' = table /\ dates' = dates)]_vars

(* Today has been added by Enter while browsing: the mode left by an       *)
(* earlier removal is still Remove, and today is in the store.             *)
C18_Witness ==
    /\ pc = "tui"
    /\ key = Enter
    /\ input_box = None
    /\ input_mode = "Remove"
    /\ parsed = Ok(<< today >>)
    /\ format(today) \in DOMAIN table

(* The range of the view's entry at the selected index. *)
SelectedRange == compress(Rows(table)).ranges[selected_index + 1]

(* C19: Enter on an input box of Remove mode that holds the view's entry   *)
(* at the selected index, as d put it there: the text parses to exactly    *)
(* the days of that entry's range, and exactly those days leave the store. *)
C19_RemoveSelectedRange ==
    [][(Confirms /\ input_mode = "Remove" /\ selected_index < Len(dates)
            /\ input_box[1] = dates[selected_index + 1])
           => /\ parsed' = Ok(Inclusive(SelectedRange[1], SelectedRange[2]))
              /\ Days(table') =
                     Days(table) \ (SelectedRange[1] .. SelectedRange[2])
              /\ DOMAIN table' =
                     DOMAIN table \ {format(d) :
                                         d \in SelectedRange[1] .. SelectedRange[2]}
              /\ \A k \in DOMAIN table' : table'[k] = table[k]
              /\ pc' = "tui"]_vars

(* A selected range of several days that does not start today, which only  *)
(* d puts into the input box, has been removed.                            *)
C19_Witness ==
    /\ pc = "tui"
    /\ key = Enter
    /\ input_mode = "Remove"
    /\ input_box = None
    /\ parsed.kind = "Ok"
    /\ Len(parsed.dates) >= 2
    /\ parsed.dates[1] # today
    /\ Days(table) \cap SeqSet(parsed.dates) = {}

(* C20: whenever the loop awaits an event the view is the rendering of the *)
(* compressed contents of the store.                                       *)
C20_ViewIsFresh ==
    pc = "tui" =>
        /\ get_export(table).ok
        /\ dates = get_export(table).v
        /\ dates = rendered(compress(Rows(table)).ranges)

(* The loop awaits an event after an Enter that changed the store, with    *)
(* two entries in the view.                                                *)
C20_Witness ==
    /\ pc = "tui"
    /\ key = Enter
    /\ parsed.kind = "Ok"
    /\ Len(dates) = 2
    /\ Cardinality(DOMAIN table) = 3

(* A pressed character key without Ctrl arrives while the box is open. *)
TypesChar ==
    /\ pc = "tui" /\ input_box # None
    /\ key' \in CharKeys

(* Backspace arrives while the box is open and empty. *)
BackspacesOnEmpty ==
    /\ pc = "tui" /\ input_box = Some(<< >>)
    /\ key' = Key("Backspace", "", FALSE)

(* The two events that may write to the store: Enter on a box that is not  *)
(* blank, and Enter while browsing.                                        *)
WritesAllowed ==
    /\ key' = Enter
    /\ IF input_box = None THEN TRUE ELSE ~Blank(input_box)

(* C21: while the loop awaits an event, a step changes the store only on   *)
(* Enter with a non-blank box or on Enter while browsing; every other      *)
(* event leaves the store as it was.  With the box open, a character key   *)
(* (q, a and d included) only appends its character to the box: the loop   *)
(* goes on, the mode, the view and the selected index stay.  Backspace on  *)
(* an open, empty box changes nothing.                                     *)
C21_EventFrame ==
    [][/\ (pc = "tui" /\ ~WritesAllowed) => table' = table
       /\ TypesChar
              => /\ input_box' = Some(Append(input_box[1], key'.ch))
                 /\ pc' = "tui"
                 /\ exit' = "none"
                 /\ raw_mode' = raw_mode
                 /\ parsed' = NotCalled
                 /\ UNCHANGED << table, dates, selected_index, input_mode >>
       /\ BackspacesOnEmpty
              => /\ pc' = "tui"
                 /\ exit' = "none"
                 /\ raw_mode' = raw_mode
                 /\ parsed' = NotCalled
                 /\ UNCHANGED << table, app >>]_vars

(* In Remove mode, over a store that holds days, the box was emptied and   *)
(* an a was typed into it.                                                 *)
C21_Witness ==
    /\ pc = "tui"
    /\ input_mode = "Remove"
    /\ key = Key("Char", "a", FALSE)
    /\ input_box = Some(<< "a" >>)
    /\ DOMAIN table # {}
    /\ dates # << >>

====
